---- MODULE Spec2Model ----
(***************************************************************************)
(* Model of the POST /api/chat handler of api/main.py: the request is      *)
(* parsed and validated, context is retrieved from Pinecone (with a Cohere *)
(* embedding), a DuckDuckGo search is made when that context is too short, *)
(* the prompt is assembled and Groq / OpenRouter are tried in the order    *)
(* the complexity heuristic selects.                                       *)
(*                                                                         *)
(* Python strings are sequences of one-character strings, so that strip(), *)
(* lower(), split(), len() and the `in` substring test are computed.       *)
(* Python values are records tagged with their type.                       *)
(***************************************************************************)
EXTENDS Integers, Sequences, FiniteSets, TLC

VARIABLES
    pinecone_index,      \* module global: TRUE iff the Pinecone index handle exists
    cohere_client,       \* module global: TRUE iff the Cohere client exists
    GROQ_API_KEY,        \* module global: TRUE iff the key is set
    OPENROUTER_API_KEY,  \* module global: TRUE iff the key is set
    pc,                  \* position of the handler
    data,                \* the request body as received
    user_message,        \* local of chat_endpoint
    query_embedding,     \* local of retrieve_from_pinecone
    rag_result,          \* local of chat_endpoint
    results,             \* local of web_search_with_duckduckgo
    web_search_result,   \* local of chat_endpoint
    final_prompt,        \* local of chat_endpoint
    use_groq,            \* local of chat_endpoint
    response,            \* local of chat_endpoint
    calls,               \* the outbound calls made for this request, in order
    http_status,         \* status code of the response sent (0: none yet)
    http_body            \* content of the response sent

vars == <<pinecone_index, cohere_client, GROQ_API_KEY, OPENROUTER_API_KEY, pc,
          data, user_message, query_embedding, rag_result, results,
          web_search_result, final_prompt, use_groq, response, calls,
          http_status, http_body>>

config == <<pinecone_index, cohere_client, GROQ_API_KEY, OPENROUTER_API_KEY>>

-----------------------------------------------------------------------------
(* Bounds of the model *)

\* the index returns at most this many matches (and never more than top_k)
MaxMatches == 2

\* a search returns at most this many hits (and never more than max_results)
MaxHits == 1

-----------------------------------------------------------------------------
(* Python values *)

None == [type |-> "NoneType"]
Str(s) == [type |-> "str", val |-> s]
Int_(n) == [type |-> "int", val |-> n]

\* bool(v) for the values that occur
Truthy(v) ==
    CASE v.type = "NoneType" -> FALSE
      [] v.type = "str" -> Len(v.val) > 0
      [] v.type = "int" -> v.val # 0
      [] OTHER -> TRUE

Min(a, b) == IF a < b THEN a ELSE b

Rep(c, n) == [i \in 1..n |-> c]

SeqsUpTo(S, n) == UNION {[1..k -> S] : k \in 0..n}

-----------------------------------------------------------------------------
(* str methods *)

whitespace == {" ", "\n", "\t"}

RECURSIVE lstrip(_)
lstrip(s) ==
    IF s = <<>> THEN <<>>
    ELSE IF Head(s) \in whitespace THEN lstrip(Tail(s)) ELSE s

RECURSIVE rstrip(_)
rstrip(s) ==
    IF s = <<>> THEN <<>>
    ELSE IF s[Len(s)] \in whitespace THEN rstrip(SubSeq(s, 1, Len(s) - 1)) ELSE s

strip(s) == rstrip(lstrip(s))

lower_char(c) ==
    CASE c = "A" -> "a"
      [] c = "B" -> "b"
      [] c = "C" -> "c"
      [] c = "D" -> "d"
      [] c = "E" -> "e"
      [] c = "F" -> "f"
      [] c = "G" -> "g"
      [] c = "H" -> "h"
      [] c = "I" -> "i"
      [] c = "J" -> "j"
      [] c = "K" -> "k"
      [] c = "L" -> "l"
      [] c = "M" -> "m"
      [] c = "N" -> "n"
      [] c = "O" -> "o"
      [] c = "P" -> "p"
      [] c = "Q" -> "q"
      [] c = "R" -> "r"
      [] c = "S" -> "s"
      [] c = "T" -> "t"
      [] c = "U" -> "u"
      [] c = "V" -> "v"
      [] c = "W" -> "w"
      [] c = "X" -> "x"
      [] c = "Y" -> "y"
      [] c = "Z" -> "z"
      [] c = "É" -> "é"
      [] c = "Ó" -> "ó"
      [] OTHER -> c

lower(s) == [i \in 1..Len(s) |-> lower_char(s[i])]

\* s.split(): the maximal runs of non-whitespace characters, in order
RECURSIVE split_from(_, _, _)
split_from(s, i, word) ==
    IF i > Len(s)
    THEN IF word = <<>> THEN <<>> ELSE <<word>>
    ELSE IF s[i] \in whitespace
         THEN IF word = <<>>
              THEN split_from(s, i + 1, <<>>)
              ELSE <<word>> \o split_from(s, i + 1, <<>>)
         ELSE split_from(s, i + 1, Append(word, s[i]))

split(s) == split_from(s, 1, <<>>)

\* sub in s
contains(s, sub) ==
    \E i \in 0..(Len(s) - Len(sub)) : SubSeq(s, i + 1, i + Len(sub)) = sub

-----------------------------------------------------------------------------
(* Texts *)

keywords ==
    << <<"e","x","p","l","i","c","a">>,
       <<"a","n","a","l","i","z","a">>,
       <<"c","o","m","p","a","r","a">>,
       <<"d","i","f","e","r","e","n","c","i","a">>,
       <<"v","e","n","t","a","j","a","s">>,
       <<"d","e","s","v","e","n","t","a","j","a","s">>,
       <<"c","ó","m","o"," ","f","u","n","c","i","o","n","a">>,
       <<"p","r","o","c","e","s","o">>,
       <<"e","x","p","l","a","i","n">>,
       <<"a","n","a","l","y","z","e">>,
       <<"c","o","m","p","a","r","e">>,
       <<"d","i","f","f","e","r","e","n","c","e">>,
       <<"a","d","v","a","n","t","a","g","e","s">>,
       <<"d","i","s","a","d","v","a","n","t","a","g","e","s">>,
       <<"h","o","w"," ","d","o","e","s">>,
       <<"p","r","o","c","e","s","s">> >>

MsgEmpty == <<>>
MsgBlank == <<" ","\n">>
MsgHola == <<"h","o","l","a">>
MsgArancel == <<"¿","Q","u","é"," ","e","s"," ","u","n"," ","a","r","a","n","c","e","l","?">>
MsgCompara == <<" ","C","o","m","p","a","r","a"," ","A"," ","y"," ","B">>
MsgReprocessing == <<"r","e","p","r","o","c","e","s","s","i","n","g">>
MsgNine == <<"a"," ","b"," ","c"," ","d"," ","e"," ","f"," ","g"," ","h"," ","i">>
MsgEight == <<"a"," ","b"," ","c"," ","d"," ","e"," ","f"," ","g"," ","h">>

FuenteWeb == <<"[","F","U","E","N","T","E"," ","W","E","B","]"," ">>
ColonSp == <<":"," ">>
NlNl == <<"\n","\n">>

TextGroq == <<"G">>
TextOpenRouter == <<"O">>

-----------------------------------------------------------------------------
(* Program constants *)

top_k == 3                   \* pinecone_index.query(top_k=3)
ScoreThreshold == 70         \* 0.7, scores are counted in hundredths
SufficiencyThreshold == 100  \* len(rag_result.strip()) < 100
MaxWords == 8                \* len(message_words) > 8
OfficialMaxResults == 2      \* ddgs.text(official_query, max_results=2)
GeneralMaxResults == 3       \* ddgs.text(general query, max_results=3)
LLMTimeout == 25             \* httpx.AsyncClient(timeout=25.0)
NoTimeout == 0               \* no timeout is passed to the call

-----------------------------------------------------------------------------
(* What the outside world can send and answer *)

Messages ==
    {MsgEmpty, MsgBlank, MsgHola, MsgArancel, MsgCompara, MsgReprocessing,
     MsgNine, MsgEight}

Body(json, has_message, message) ==
    [json |-> json, has_message |-> has_message, message |-> message]

\* bodies of POST /api/chat: not JSON, JSON that is not an object, an object
\* without "message", an object whose "message" is null, a number or a string
RequestBodies ==
    {Body("invalid", FALSE, None), Body("array", FALSE, None),
     Body("object", FALSE, None), Body("object", TRUE, None),
     Body("object", TRUE, Int_(7))}
    \cup {Body("object", TRUE, Str(m)) : m \in Messages}

Failure(kind) == [kind |-> kind]

\* cohere_client.embed(...): a vector, an empty vector, an exception, no return
EmbedOutcomes ==
    {[kind |-> "ok", vector |-> "vector"], [kind |-> "ok", vector |-> "empty"],
     Failure("exception"), Failure("hang")}

Match(has_score, score, has_metadata, has_text, text) ==
    [has_score |-> has_score, score |-> score, has_metadata |-> has_metadata,
     has_text |-> has_text, text |-> text]

Snippet(n) == Rep("x", n)

MatchPool ==
    {Match(TRUE, 90, TRUE, TRUE, Snippet(98)),
     Match(TRUE, 90, TRUE, TRUE, Snippet(99)),
     Match(TRUE, 90, TRUE, TRUE, Snippet(100)),
     Match(TRUE, 90, TRUE, TRUE, Snippet(150)),
     Match(TRUE, 70, TRUE, TRUE, Snippet(150)),
     Match(FALSE, 0, TRUE, TRUE, Snippet(150)),
     Match(TRUE, 90, TRUE, FALSE, <<>>),
     Match(TRUE, 90, FALSE, FALSE, <<>>)}

\* pinecone_index.query(...): a reply with "matches", a reply without that
\* key, an exception, no return
QueryOutcomes ==
    {[kind |-> "ok", has_matches |-> TRUE, matches |-> ms] :
        ms \in SeqsUpTo(MatchPool, Min(MaxMatches, top_k))}
    \cup {[kind |-> "ok", has_matches |-> FALSE, matches |-> <<>>],
          Failure("exception"), Failure("hang")}

Hit(has_title, title, body) ==
    [has_title |-> has_title, title |-> title, body |-> body]

HitPool == {Hit(TRUE, <<"t">>, <<"b">>), Hit(FALSE, <<>>, <<"b">>)}

\* ddgs.text(..., max_results=n): a list of hits, an exception, no return
SearchOutcomes(max_results) ==
    {[kind |-> "ok", hits |-> hs] : hs \in SeqsUpTo(HitPool, Min(MaxHits, max_results))}
    \cup {Failure("exception"), Failure("hang")}

\* client.post(...): an exception, no return, or an HTTP reply whose body is
\* a chat completion with the given content or is not one
LLMOutcomes(text) ==
    {Failure("exception"), Failure("hang")}
    \cup {[kind |-> "http", status |-> 500, wellformed |-> TRUE, content |-> None],
          [kind |-> "http", status |-> 200, wellformed |-> FALSE, content |-> None]}
    \cup {[kind |-> "http", status |-> 200, wellformed |-> TRUE, content |-> c] :
            c \in {None, Str(<<>>), Str(text)}}

-----------------------------------------------------------------------------
(* Results of the functions: a returned value or a raised exception *)

Return(v) == [raised |-> FALSE, value |-> v]
Raise == [raised |-> TRUE, value |-> None]

\* the timeout each outbound call is made with
timeout_of(callee) ==
    CASE callee = "groq" -> LLMTimeout
      [] callee = "openrouter" -> LLMTimeout
      [] callee = "cohere" -> NoTimeout
      [] callee = "pinecone" -> NoTimeout
      [] callee = "ddgs" -> NoTimeout

\* a call that does not return is cut off by its timeout, if it has one
settled(callee, o) ==
    IF o.kind = "hang" /\ timeout_of(callee) # NoTimeout THEN Failure("timeout") ELSE o

Call(callee, arg, result) == [callee |-> callee, arg |-> arg, result |-> result]

\* how a search ended, for the record of calls
search_result(s) ==
    IF s.kind = "ok" THEN (IF s.hits = <<>> THEN "no_hits" ELSE "hits") ELSE s.kind

-----------------------------------------------------------------------------
(* chat_endpoint, the pure parts *)

\* variant: the message is taken as sent, without .strip()
user_message_unstripped(d) ==
    IF d.json = "invalid" THEN Raise
    ELSE IF d.json # "object" THEN Raise
    ELSE LET m == IF d.has_message THEN d.message ELSE Str(<<>>)
         IN  IF m.type # "str" THEN Raise ELSE Return(m.val)

\* data = await request.json(); user_message = data.get("message", "").strip()
user_message_of(d) ==
    IF d.json = "invalid" THEN Raise
    ELSE IF d.json # "object" THEN Raise
    ELSE LET m == IF d.has_message THEN d.message ELSE Str(<<>>)
         IN  IF m.type # "str" THEN Raise ELSE Return(strip(m.val))

\* if pinecone_index and cohere_client
rag_available(index, client) == index /\ client

\* variant: the length is taken without .strip()
rag_insufficient_unstripped(rag) == Len(rag) < SufficiencyThreshold

\* if len(rag_result.strip()) < 100
rag_insufficient(rag) == Len(strip(rag)) < SufficiencyThreshold

\* variant: the context is left out of the prompt
final_prompt_direct(rag, web, question) ==
    [template |-> "direct", context |-> <<>>, question |-> question]

\* if rag_result or web_search_result: contextual prompt, else direct prompt
final_prompt_of(rag, web, question) ==
    IF Truthy(Str(rag)) \/ Truthy(Str(web))
    THEN [template |-> "contextual", context |-> <<rag, web>>, question |-> question]
    ELSE [template |-> "direct", context |-> <<>>, question |-> question]

\* any(keyword in user_message.lower() for keyword in [...])
is_complex(msg) ==
    \E k \in 1..Len(keywords) : contains(lower(msg), keywords[k])

\* use_groq = is_complex or len(message_words) > 8
use_groq_of(msg) == is_complex(msg) \/ Len(split(lower(msg))) > MaxWords

\* variant: Groq goes first whenever its key is set
groq_first_by_presence(ug, key) == key

\* if use_groq and GROQ_API_KEY
groq_first(ug, key) == ug /\ key

\* variant: OpenRouter is asked whether or not there is an answer already
openrouter_always(resp, key) == key

\* if not response and OPENROUTER_API_KEY
openrouter_next(resp, key) == ~Truthy(resp) /\ key

\* variant: the fallback does not look at use_groq
groq_fallback_again(resp, key, ug) == ~Truthy(resp) /\ key

\* if not response and GROQ_API_KEY and not use_groq
groq_fallback(resp, key, ug) == ~Truthy(resp) /\ key /\ ~ug

\* variant: the missing answer is not checked
status_unchecked(resp) == 200

\* if not response: 503, else 200
status_of(resp) == IF ~Truthy(resp) THEN 503 ELSE 200

-----------------------------------------------------------------------------
(* create_embeddings, retrieve_from_pinecone *)

\* the value create_embeddings returns for an outcome of cohere_client.embed
create_embeddings(o) ==
    IF o.kind = "ok" THEN Return(o.vector) ELSE Return("none")

\* if not query_embedding
no_embedding(e) == e \in {"none", "empty"}

\* result.get("score", 0) > 0.7
relevant(result) ==
    (IF result.has_score THEN result.score ELSE 0) > ScoreThreshold

\* the loop over query_results["matches"]; result['metadata'] of a relevant
\* match without metadata raises KeyError
RECURSIVE context_of(_, _)
context_of(matches, context) ==
    IF matches = <<>> THEN Return(context)
    ELSE LET result == Head(matches)
         IN  IF ~relevant(result) THEN context_of(Tail(matches), context)
             ELSE IF ~result.has_metadata THEN Raise
             ELSE context_of(Tail(matches),
                             context \o (IF result.has_text THEN result.text ELSE <<>>) \o NlNl)

\* what retrieve_from_pinecone returns for an outcome of pinecone_index.query
retrieve_from_pinecone(o) ==
    IF o.kind # "ok" THEN Return(<<>>)
    ELSE IF ~o.has_matches THEN Return(<<>>)
    ELSE LET c == context_of(o.matches, <<>>)
         IN  IF c.raised THEN Return(<<>>) ELSE c

-----------------------------------------------------------------------------
(* web_search_with_duckduckgo *)

\* if not results
needs_general_search(hits) == hits = <<>>

\* the loop building web_context; r['title'] of a hit without title raises
RECURSIVE web_context_of(_, _)
web_context_of(hits, web_context) ==
    IF hits = <<>> THEN Return(web_context)
    ELSE LET r == Head(hits)
         IN  IF ~r.has_title THEN Raise
             ELSE web_context_of(Tail(hits),
                                 web_context \o FuenteWeb \o r.title \o ColonSp \o r.body \o NlNl)

\* what web_search_with_duckduckgo returns once it has its results
web_search_with_duckduckgo(hits) ==
    LET w == web_context_of(hits, <<>>)
    IN  IF w.raised THEN Return(<<>>) ELSE w

-----------------------------------------------------------------------------
(* call_groq_api, call_openrouter_api *)

\* variant: without the try/except around client.post
llm_return_uncaught(o) ==
    IF o.kind # "http" THEN Raise
    ELSE IF o.status # 200 THEN Return(None)
    ELSE IF ~o.wellformed THEN Raise
    ELSE Return(o.content)

\* the value returned for an outcome of client.post
llm_return(o) ==
    IF o.kind # "http" THEN Return(None)
    ELSE IF o.status # 200 THEN Return(None)
    ELSE IF ~o.wellformed THEN Return(None)
    ELSE Return(o.content)

call_groq_api(key, o) == IF ~key THEN Return(None) ELSE llm_return(o)

call_openrouter_api(key, o) == IF ~key THEN Return(None) ELSE llm_return(o)

\* how an attempt ended, for the record of calls
attempt_result(r) ==
    IF r.raised THEN "raised" ELSE IF Truthy(r.value) THEN "answer" ELSE "no_answer"

-----------------------------------------------------------------------------
(* State after the module is imported: the four globals are set from the     *)
(* environment once and never change; no request has arrived.                *)

NoPrompt == [template |-> "none", context |-> <<>>, question |-> <<>>]

Init ==
    /\ pinecone_index \in BOOLEAN
    /\ cohere_client \in BOOLEAN
    /\ GROQ_API_KEY \in BOOLEAN
    /\ OPENROUTER_API_KEY \in BOOLEAN
    /\ pc = "idle"
    /\ data = Body("none", FALSE, None)
    /\ user_message = <<>>
    /\ query_embedding = "none"
    /\ rag_result = <<>>
    /\ results = <<>>
    /\ web_search_result = <<>>
    /\ final_prompt = NoPrompt
    /\ use_groq = FALSE
    /\ response = None
    /\ calls = <<>>
    /\ http_status = 0
    /\ http_body = [key |-> "none", value |-> None]

\* return JSONResponse(status_code=..., content=...) / return {...}
Reply(status, key, value) ==
    /\ http_status' = status
    /\ http_body' = [key |-> key, value |-> value]
    /\ pc' = "done"

\* except Exception as e: return JSONResponse(status_code=500, ...)
InternalError == Reply(500, "error", Str(<<"E">>))

-----------------------------------------------------------------------------
(* chat_endpoint up to its first outbound call *)

Receive(d) ==
    /\ pc = "idle"
    /\ data' = d
    /\ LET m == user_message_of(d)
       IN  IF m.raised
           THEN InternalError /\ UNCHANGED user_message
           ELSE IF ~Truthy(Str(m.value))
           THEN Reply(400, "error", Str(<<"M">>)) /\ UNCHANGED user_message
           ELSE /\ user_message' = m.value
                /\ pc' = IF rag_available(pinecone_index, cohere_client)
                         THEN "retrieve" ELSE "sufficiency"
                /\ UNCHANGED <<http_status, http_body>>
    /\ UNCHANGED <<config, query_embedding, rag_result, results, web_search_result,
                   final_prompt, use_groq, response, calls>>

(* retrieve_from_pinecone: the embedding of the question *)
Embed(o) ==
    /\ pc = "retrieve"
    /\ IF ~pinecone_index \/ ~cohere_client
       THEN /\ rag_result' = <<>>
            /\ pc' = "sufficiency"
            /\ UNCHANGED <<query_embedding, calls, http_status, http_body>>
       ELSE LET s == settled("cohere", o)
                e == create_embeddings(s)
            IN  /\ calls' = Append(calls, Call("cohere", "question", s.kind))
                /\ IF s.kind = "hang"
                   THEN /\ pc' = "blocked"
                        /\ UNCHANGED <<query_embedding, rag_result, http_status, http_body>>
                   ELSE IF e.raised
                   THEN InternalError /\ UNCHANGED <<query_embedding, rag_result>>
                   ELSE /\ query_embedding' = e.value
                        /\ IF no_embedding(e.value)
                           THEN rag_result' = <<>> /\ pc' = "sufficiency"
                           ELSE pc' = "query" /\ UNCHANGED rag_result
                        /\ UNCHANGED <<http_status, http_body>>
    /\ UNCHANGED <<config, data, user_message, results, web_search_result,
                   final_prompt, use_groq, response>>

(* retrieve_from_pinecone: the query of the index and the loop over its matches *)
Query(o) ==
    /\ pc = "query"
    /\ LET s == settled("pinecone", o)
           r == retrieve_from_pinecone(s)
       IN  /\ calls' = Append(calls, Call("pinecone", "embedding", s.kind))
           /\ IF s.kind = "hang"
              THEN pc' = "blocked" /\ UNCHANGED <<rag_result, http_status, http_body>>
              ELSE IF r.raised
              THEN InternalError /\ UNCHANGED rag_result
              ELSE /\ rag_result' = r.value
                   /\ pc' = "sufficiency"
                   /\ UNCHANGED <<http_status, http_body>>
    /\ UNCHANGED <<config, data, user_message, query_embedding, results,
                   web_search_result, final_prompt, use_groq, response>>

(* chat_endpoint, PASO 2: is the retrieved context enough? *)
Sufficiency ==
    /\ pc = "sufficiency"
    /\ pc' = IF rag_insufficient(rag_result) THEN "search_official" ELSE "prompt"
    /\ UNCHANGED <<config, data, user_message, query_embedding, rag_result, results,
                   web_search_result, final_prompt, use_groq, response, calls,
                   http_status, http_body>>

(* web_search_with_duckduckgo: the search restricted to official sites *)
SearchOfficial(o) ==
    /\ pc = "search_official"
    /\ LET s == settled("ddgs", o)
       IN  /\ calls' = Append(calls, Call("ddgs", "official", search_result(s)))
           /\ IF s.kind = "hang"
              THEN pc' = "blocked" /\ UNCHANGED <<results, web_search_result, http_status, http_body>>
              ELSE IF s.kind # "ok"
              THEN /\ web_search_result' = <<>>
                   /\ pc' = "prompt"
                   /\ UNCHANGED <<results, http_status, http_body>>
              ELSE /\ results' = s.hits
                   /\ IF needs_general_search(s.hits)
                      THEN pc' = "search_general" /\ UNCHANGED <<web_search_result, http_status, http_body>>
                      ELSE LET w == web_search_with_duckduckgo(s.hits)
                           IN  IF w.raised
                               THEN InternalError /\ UNCHANGED web_search_result
                               ELSE /\ web_search_result' = w.value
                                    /\ pc' = "prompt"
                                    /\ UNCHANGED <<http_status, http_body>>
    /\ UNCHANGED <<config, data, user_message, query_embedding, rag_result,
                   final_prompt, use_groq, response>>

(* web_search_with_duckduckgo: the general search, made when the first found nothing *)
SearchGeneral(o) ==
    /\ pc = "search_general"
    /\ LET s == settled("ddgs", o)
       IN  /\ calls' = Append(calls, Call("ddgs", "general", search_result(s)))
           /\ IF s.kind = "hang"
              THEN pc' = "blocked" /\ UNCHANGED <<results, web_search_result, http_status, http_body>>
              ELSE IF s.kind # "ok"
              THEN /\ web_search_result' = <<>>
                   /\ pc' = "prompt"
                   /\ UNCHANGED <<results, http_status, http_body>>
              ELSE LET w == web_search_with_duckduckgo(s.hits)
                   IN  /\ results' = s.hits
                       /\ IF w.raised
                          THEN InternalError /\ UNCHANGED web_search_result
                          ELSE /\ web_search_result' = w.value
                               /\ pc' = "prompt"
                               /\ UNCHANGED <<http_status, http_body>>
    /\ UNCHANGED <<config, data, user_message, query_embedding, rag_result,
                   final_prompt, use_groq, response>>

(* chat_endpoint, PASO 3 and PASO 4: the prompt and the complexity of the question *)
BuildPrompt ==
    /\ pc = "prompt"
    /\ final_prompt' = final_prompt_of(rag_result, web_search_result, user_message)
    /\ use_groq' = use_groq_of(user_message)
    /\ pc' = "groq_first"
    /\ UNCHANGED <<config, data, user_message, query_embedding, rag_result, results,
                   web_search_result, response, calls, http_status, http_body>>

\* response = await call_...(final_prompt), with the outer except of chat_endpoint
Attempt(callee, r, next) ==
    /\ calls' = Append(calls, Call(callee, final_prompt.template, attempt_result(r)))
    /\ IF r.raised
       THEN InternalError /\ UNCHANGED response
       ELSE /\ response' = r.value
            /\ pc' = next
            /\ UNCHANGED <<http_status, http_body>>

Skip(next) ==
    /\ pc' = next
    /\ UNCHANGED <<response, calls, http_status, http_body>>

(* chat_endpoint, PASO 5: Groq first for a complex question *)
GroqFirst(o) ==
    /\ pc = "groq_first"
    /\ IF groq_first(use_groq, GROQ_API_KEY)
       THEN Attempt("groq", call_groq_api(GROQ_API_KEY, settled("groq", o)), "openrouter")
       ELSE Skip("openrouter")
    /\ UNCHANGED <<config, data, user_message, query_embedding, rag_result, results,
                   web_search_result, final_prompt, use_groq>>

(* chat_endpoint, PASO 5: OpenRouter *)
OpenRouter(o) ==
    /\ pc = "openrouter"
    /\ IF openrouter_next(response, OPENROUTER_API_KEY)
       THEN Attempt("openrouter", call_openrouter_api(OPENROUTER_API_KEY, settled("openrouter", o)),
                    "groq_fallback")
       ELSE Skip("groq_fallback")
    /\ UNCHANGED <<config, data, user_message, query_embedding, rag_result, results,
                   web_search_result, final_prompt, use_groq>>

(* chat_endpoint, PASO 5: Groq as the fallback of a simple question *)
GroqFallback(o) ==
    /\ pc = "groq_fallback"
    /\ IF groq_fallback(response, GROQ_API_KEY, use_groq)
       THEN Attempt("groq", call_groq_api(GROQ_API_KEY, settled("groq", o)), "respond")
       ELSE Skip("respond")
    /\ UNCHANGED <<config, data, user_message, query_embedding, rag_result, results,
                   web_search_result, final_prompt, use_groq>>

(* chat_endpoint: the 503 or the 200 *)
Respond ==
    /\ pc = "respond"
    /\ IF status_of(response) = 503
       THEN Reply(503, "error", Str(<<"S">>))
       ELSE Reply(status_of(response), "response", response)
    /\ UNCHANGED <<config, data, user_message, query_embedding, rag_result, results,
                   web_search_result, final_prompt, use_groq, response, calls>>

Next ==
    \/ \E d \in RequestBodies : Receive(d)
    \/ \E o \in EmbedOutcomes : Embed(o)
    \/ \E o \in QueryOutcomes : Query(o)
    \/ Sufficiency
    \/ \E o \in SearchOutcomes(OfficialMaxResults) : SearchOfficial(o)
    \/ \E o \in SearchOutcomes(GeneralMaxResults) : SearchGeneral(o)
    \/ BuildPrompt
    \/ \E o \in LLMOutcomes(TextGroq) : GroqFirst(o)
    \/ \E o \in LLMOutcomes(TextOpenRouter) : OpenRouter(o)
    \/ \E o \in LLMOutcomes(TextGroq) : GroqFallback(o)
    \/ Respond

Spec == Init /\ [][Next]_vars

\* the handler is a coroutine that the event loop runs to its next await or return
FairSpec == Spec /\ WF_vars(Next)

TypeOK ==
    /\ pc \in {"idle", "retrieve", "query", "sufficiency", "search_official",
               "search_general", "prompt", "groq_first", "openrouter",
               "groq_fallback", "respond", "done", "blocked"}
    /\ http_status \in {0, 200, 400, 500, 503}
    /\ (pc = "done") = (http_status # 0)

-----------------------------------------------------------------------------
(* Vocabulary of the properties *)

AllWhitespace(s) == \A i \in 1..Len(s) : s[i] \in whitespace

\* a request has been received
Received == pc # "idle"

\* the body is a JSON object whose "message" is a string
HasStringMessage ==
    /\ data.json = "object"
    /\ data.has_message
    /\ data.message.type = "str"

\* the message is the empty string or only whitespace
BlankMessage == HasStringMessage /\ AllWhitespace(data.message.val)

\* the request carries a question
NonEmptyQuestion == HasStringMessage /\ ~AllWhitespace(data.message.val)

\* no usable message: not JSON, not an object, "message" missing, not a string, or blank
Malformed == Received /\ ~NonEmptyQuestion

IsLLM(c) == c.callee \in {"groq", "openrouter"}
LLMCalls == SelectSeq(calls, IsLLM)
IsSearch(c) == c.callee = "ddgs"
SearchCalls == SelectSeq(calls, IsSearch)
IsEmbed(c) == c.callee = "cohere"
EmbedCalls == SelectSeq(calls, IsEmbed)
IsQuery(c) == c.callee = "pinecone"
QueryCalls == SelectSeq(calls, IsQuery)

Answered(c) == c.result = "answer"
SomeAnswer == \E i \in 1..Len(LLMCalls) : Answered(LLMCalls[i])

\* the web search has been entered
Searched == pc = "search_official" \/ SearchCalls # <<>>

\* the handler is past the sufficiency check
PastSufficiency ==
    \/ pc \in {"search_official", "search_general", "prompt", "groq_first",
               "openrouter", "groq_fallback", "respond"}
    \/ final_prompt.template # "none"

\* the handler is past the three attempts of PASO 5
PastAttempts == pc = "respond" \/ http_status \in {200, 503}

\* the question as the handler classifies it: a keyword occurs in the
\* lower-cased question, or it has more than 8 whitespace-separated tokens
ComplexQuestion ==
    \/ \E k \in 1..Len(keywords) : contains(lower(user_message), keywords[k])
    \/ Len(split(user_message)) > 8

TextOf(callee) == IF callee = "groq" THEN TextGroq ELSE TextOpenRouter

-----------------------------------------------------------------------------
\* C1: a request whose message is empty or only whitespace is answered 400
\* and no collaborator is called for it.
C1_BlankRejected ==
    (Received /\ BlankMessage) =>
        (pc = "done" /\ http_status = 400 /\ calls = <<>>)

C1_Witness ==
    /\ pc = "done"
    /\ HasStringMessage
    /\ data.message.val = MsgBlank
    /\ http_status = 400
    /\ pinecone_index /\ cohere_client /\ GROQ_API_KEY /\ OPENROUTER_API_KEY

\* C2: a request with a non-empty question for which no LLM attempt gave an
\* answer (none configured, or every attempt failed) is never answered 200
\* or 500, and once answered it is answered 503.
C2_NoProvider503 ==
    (Received /\ NonEmptyQuestion /\ ~SomeAnswer) =>
        (http_status \in {0, 503} /\ (pc = "done" => http_status = 503))

C2_Witness ==
    /\ pc = "done"
    /\ http_status = 503
    /\ Len(LLMCalls) = 2
    /\ rag_result # <<>>
    /\ SearchCalls = <<>>

\* C3 as stated: when the retrieved context, separators included, has 100
\* characters or more, the web search is not made.
C3_UntrimmedGate == PastSufficiency => (Len(rag_result) >= 100 => ~Searched)

\* C3 amended: the web search is made exactly when the retrieved context,
\* with leading and trailing whitespace removed, has fewer than 100
\* characters: not at 100, and at 99.
C3_TrimmedGate ==
    /\ Len(strip(rag_result)) >= 100 => ~Searched
    /\ (PastSufficiency /\ Len(strip(rag_result)) <= 99) => Searched

C3_Witness ==
    /\ pc = "done"
    /\ http_status = 200
    /\ Len(strip(rag_result)) = 100
    /\ SearchCalls = <<>>

\* C4: with both providers configured, a complex question tries Groq first
\* and OpenRouter only after Groq gave no answer; a simple question tries
\* OpenRouter first and Groq only after OpenRouter gave no answer.
C4_AttemptOrder ==
    (GROQ_API_KEY /\ OPENROUTER_API_KEY) =>
        LET first == IF ComplexQuestion THEN "groq" ELSE "openrouter"
            second == IF ComplexQuestion THEN "openrouter" ELSE "groq"
        IN  /\ Len(LLMCalls) <= 2
            /\ Len(LLMCalls) >= 1 => LLMCalls[1].callee = first
            /\ Len(LLMCalls) = 2 =>
                  (LLMCalls[2].callee = second /\ ~Answered(LLMCalls[1]))
            /\ (PastAttempts /\ ~SomeAnswer) => Len(LLMCalls) = 2
            /\ (pc = "groq_fallback" \/ (ComplexQuestion /\ pc = "openrouter")) =>
                  Len(LLMCalls) >= 1

C4_Witness ==
    /\ pc = "done"
    /\ GROQ_API_KEY /\ OPENROUTER_API_KEY
    /\ user_message = MsgReprocessing
    /\ Len(LLMCalls) = 2
    /\ LLMCalls[1].callee = "groq"
    /\ Answered(LLMCalls[2])

\* C5 as stated: every answered request made at most one retrieval call, at
\* most one web-search call and one or two LLM attempts.
C5_CallBounds ==
    /\ Len(QueryCalls) <= 1
    /\ Len(SearchCalls) <= 1
    /\ Len(LLMCalls) <= 2
    /\ http_status \in {200, 503} => Len(LLMCalls) >= 1

\* C5 amended: at most one embedding call and one retrieval call, at most
\* two web-search calls (the second only after a first that found nothing),
\* at most two LLM attempts, on different providers; at least one LLM
\* attempt in a request answered 200 or 503 when some LLM key is set, and
\* none when no LLM key is set.
C5_CallBoundsAmended ==
    /\ Len(EmbedCalls) <= 1
    /\ Len(QueryCalls) <= 1
    /\ Len(SearchCalls) <= 2
    /\ Len(SearchCalls) = 2 =>
          (SearchCalls[1].result = "no_hits" /\ SearchCalls[2].arg = "general")
    /\ Len(LLMCalls) <= 2
    /\ Len(LLMCalls) = 2 => LLMCalls[1].callee # LLMCalls[2].callee
    /\ (http_status \in {200, 503} /\ (GROQ_API_KEY \/ OPENROUTER_API_KEY)) =>
          Len(LLMCalls) >= 1
    /\ (~GROQ_API_KEY /\ ~OPENROUTER_API_KEY) => LLMCalls = <<>>

C5_Witness ==
    /\ pc = "done"
    /\ Len(QueryCalls) = 1
    /\ Len(SearchCalls) = 2
    /\ Len(LLMCalls) = 2

\* C6: a request without a usable message (not JSON, not an object, message
\* missing, not a string, or blank) is answered 400 and no collaborator is
\* called for it.
C6_Malformed400 ==
    Malformed => (pc = "done" /\ http_status = 400 /\ calls = <<>>)

\* C7: a failure of a collaborator is not passed on to the caller: a 500 is
\* only ever sent before any collaborator was called, a failed embedding or
\* retrieval leaves the retrieved context empty, a failed search leaves the
\* web context empty, and a request in which some LLM attempt gave an answer
\* is answered 200.
C7_FailuresAbsorbed ==
    /\ http_status = 500 => calls = <<>>
    /\ (\E i \in 1..Len(calls) :
            /\ calls[i].callee \in {"cohere", "pinecone"}
            /\ calls[i].result = "exception") => rag_result = <<>>
    /\ (\E i \in 1..Len(calls) :
            /\ calls[i].callee = "ddgs"
            /\ calls[i].result = "exception") => web_search_result = <<>>
    /\ (pc = "done" /\ SomeAnswer) => http_status = 200
    /\ (calls # <<>> /\ pc = "done") => http_status \in {200, 503}

C7_Witness ==
    /\ pc = "done"
    /\ http_status = 200
    /\ \E i \in 1..Len(calls) : calls[i].callee = "pinecone" /\ calls[i].result = "exception"
    /\ \E i \in 1..Len(calls) : calls[i].callee = "ddgs" /\ calls[i].result = "exception"
    /\ Len(LLMCalls) = 2
    /\ ~Answered(LLMCalls[1])

\* C8: every request that was received is eventually answered, whatever the
\* collaborators do, a call that never returns included.
C8_AlwaysAnswered == Received ~> (pc = "done")

\* the request of scenario 1: the question, the retrieval returning the one
\* snippet of 150 characters, Groq configured and answering when asked
Scenario1 ==
    /\ user_message = MsgArancel
    /\ QueryCalls # <<>>
    /\ rag_result = Snippet(150) \o NlNl
    /\ GROQ_API_KEY
    /\ \A i \in 1..Len(LLMCalls) : LLMCalls[i].callee = "groq" => Answered(LLMCalls[i])

\* C9 as stated: in scenario 1 the web search is skipped and the answer is
\* 200 with the text of Groq, whatever the configuration of OpenRouter.
C9_Scenario1Groq ==
    (pc = "done" /\ Scenario1) =>
        /\ SearchCalls = <<>>
        /\ http_status = 200
        /\ http_body = [key |-> "response", value |-> Str(TextGroq)]

\* C9 amended: in scenario 1 the web search is skipped, every LLM attempt gets
\* the contextual prompt and the answer is 200; it is the text of Groq when
\* OpenRouter is not configured or gave no answer (OpenRouter being asked
\* first, the question being simple), and the text of OpenRouter, with Groq
\* not asked, when OpenRouter is configured and answers.
C9_Scenario1Amended ==
    (pc = "done" /\ Scenario1) =>
        /\ SearchCalls = <<>>
        /\ \A i \in 1..Len(LLMCalls) : LLMCalls[i].arg = "contextual"
        /\ http_status = 200
        /\ IF OPENROUTER_API_KEY /\ Answered(LLMCalls[1])
           THEN /\ http_body = [key |-> "response", value |-> Str(TextOpenRouter)]
                /\ Len(LLMCalls) = 1
                /\ LLMCalls[1].callee = "openrouter"
           ELSE /\ http_body = [key |-> "response", value |-> Str(TextGroq)]
                /\ LLMCalls[Len(LLMCalls)].callee = "groq"
                /\ OPENROUTER_API_KEY <=> Len(LLMCalls) = 2

C9_Witness ==
    /\ pc = "done"
    /\ Scenario1
    /\ ~OPENROUTER_API_KEY
    /\ http_status = 200
    /\ http_body = [key |-> "response", value |-> Str(TextGroq)]
    /\ Len(LLMCalls) = 1

\* C10: no provider is tried twice, nothing is tried after an answer, a 200
\* carries the text of the last attempt, and a 503 is sent only after every
\* configured provider was tried.
C10_OneAttemptEach ==
    /\ \A i, j \in 1..Len(LLMCalls) :
          i < j => (LLMCalls[i].callee # LLMCalls[j].callee /\ ~Answered(LLMCalls[i]))
    /\ http_status = 200 =>
          /\ LLMCalls # <<>>
          /\ Answered(LLMCalls[Len(LLMCalls)])
          /\ http_body = [key |-> "response",
                          value |-> Str(TextOf(LLMCalls[Len(LLMCalls)].callee))]
    /\ http_status = 503 =>
          /\ GROQ_API_KEY => \E i \in 1..Len(LLMCalls) : LLMCalls[i].callee = "groq"
          /\ OPENROUTER_API_KEY => \E i \in 1..Len(LLMCalls) : LLMCalls[i].callee = "openrouter"

C10_Witness ==
    /\ pc = "done"
    /\ http_status = 200
    /\ Len(LLMCalls) = 2
    /\ LLMCalls[1].callee = "openrouter"
    /\ LLMCalls[1].result = "no_answer"
    /\ http_body = [key |-> "response", value |-> Str(TextGroq)]
====
